---------------------------- MODULE Spec2Model ----------------------------
(***************************************************************************)
(* Round closing of the pooled-deposit lottery                             *)
(* (src/close_round_fixed_address.py).                                     *)
(*                                                                         *)
(* The database is three tables (rounds, participants, transactions); a    *)
(* row's id is its position in the table.  Every close_round invocation    *)
(* opens its own session, so the invocations of different processes share  *)
(* nothing but the database, and each statement or commit of an invocation *)
(* is one atomic step that other invocations may interleave with.          *)
(*                                                                         *)
(* Representation:                                                         *)
(*   - a nullable column or a Python value that may be None is a sequence: *)
(*     <<>> is None, <<v>> is the value v;                                 *)
(*   - a text is a sequence of one-character strings;                      *)
(*   - an amount is an integer number of 1e-8 units (round(x, 8) keeps 8   *)
(*     decimals), a rate an integer number of hundredths;                  *)
(*   - datetime.utcnow() reads a logical clock that every reading          *)
(*     advances.                                                           *)
(***************************************************************************)
EXTENDS Integers, Sequences, FiniteSets, TLC

VARIABLES
    rounds,          \* table Round
    participants,    \* table Participant
    transactions,    \* table Transaction
    now,             \* the clock datetime.utcnow() reads
    pc,              \* per process: the statement of close_round it is at
    round_id,        \* per process: close_round's argument
    rnd,             \* per process: the loaded Round (its id), or None
    plist,           \* per process: the loaded participant list (row ids)
    block_hash,      \* per process: get_latest_block_hash()'s result
    winner_idx,      \* per process: get_winner_index()'s result
    winner_address,  \* per process: the winner's btc_address
    calls,           \* per process: invocations started so far
    history,         \* per process: (round id, outcome) of finished invocations
    trail,           \* the database writes of closures, in commit order
    draw             \* the draw function's test bench (DrawSpec)

vars == <<rounds, participants, transactions, now, pc, round_id, rnd, plist,
          block_hash, winner_idx, winner_address, calls, history, trail, draw>>

----------------------------------------------------------------------------
(* Bounds of the model *)

MaxCalls == 2
InitialParticipants == 9
MaxParticipants == 11
MaxHexLen == 2
MaxCount == 11

Procs == {1, 2}

----------------------------------------------------------------------------
(* Program constants *)

FIXED_DEPOSIT_ADDRESS == "bc1qsingleaddress1234567890"
ADMIN_FEE_ADDRESS == "bc1qadminfeeaddress1234567890"

PRIZE_RATE == 99
ADMIN_RATE == 1
PARTICIPANT_BTC_AMOUNT == 10000000
TOTAL_AMOUNT == PARTICIPANT_BTC_AMOUNT * 10

ROUND_SIZE == 10
HTTP_OK == 200
HEX_BASE == 16

None == <<>>
Some(v) == <<v>>

----------------------------------------------------------------------------
(* Texts *)

HexDigits == <<"0", "1", "2", "3", "4", "5", "6", "7", "8", "9",
               "a", "b", "c", "d", "e", "f">>
UpperDigits == [c \in {"A", "B", "C", "D", "E", "F"} |->
                  CASE c = "A" -> 10 [] c = "B" -> 11 [] c = "C" -> 12
                    [] c = "D" -> 13 [] c = "E" -> 14 [] c = "F" -> 15]
Whitespace == {" ", "\n"}

IsHexChar(c) == (\E k \in DOMAIN HexDigits : HexDigits[k] = c) \/ c \in DOMAIN UpperDigits

DigitValue(c) ==
    IF c \in DOMAIN UpperDigits THEN UpperDigits[c]
    ELSE (CHOOSE k \in DOMAIN HexDigits : HexDigits[k] = c) - 1

RECURSIVE LStrip(_)
LStrip(s) == IF s # <<>> /\ Head(s) \in Whitespace THEN LStrip(Tail(s)) ELSE s

RECURSIVE RStrip(_)
RStrip(s) ==
    IF s # <<>> /\ s[Len(s)] \in Whitespace THEN RStrip(SubSeq(s, 1, Len(s) - 1)) ELSE s

Strip(s) == RStrip(LStrip(s))

(* int(text, 16): the digits folded left to right; a text with no digit or *)
(* with a character that is no hexadecimal digit raises ValueError.        *)
RECURSIVE ParseDigits(_, _)
ParseDigits(acc, s) ==
    IF s = <<>> THEN acc ELSE ParseDigits(acc * HEX_BASE + DigitValue(Head(s)), Tail(s))

IntBase16Raises(s) == s = <<>> \/ \E k \in DOMAIN s : ~IsHexChar(s[k])

RECURSIVE ParseDecimal(_, _)
ParseDecimal(acc, s) ==
    IF s = <<>> THEN acc ELSE ParseDecimal(acc * 10 + DigitValue(Head(s)), Tail(s))

(* Mutant: the text read in base 10. *)
IntBase16_Base10(s) == ParseDecimal(0, s)

IntBase16(s) == ParseDigits(0, s)

(* Python truthiness of an optional text: None and "" are falsy. *)
Falsy(h) == h = None \/ h[1] = <<>>

----------------------------------------------------------------------------
(* get_latest_block_hash *)

HttpException == [raised |-> TRUE, status_code |-> 0, text |-> <<>>]
HttpResponse(code, body) == [raised |-> FALSE, status_code |-> code, text |-> body]

get_latest_block_hash(resp) ==
    IF resp.raised THEN None
    ELSE IF resp.status_code = HTTP_OK THEN Some(Strip(resp.text))
    ELSE None

----------------------------------------------------------------------------
(* get_winner_index *)

Returned(v) == [raised |-> FALSE, value |-> v]
ValueError == [raised |-> TRUE, value |-> None]

(* Mutant: a text that is not hexadecimal gives None instead of raising. *)
get_winner_index_Swallowing(h, num_participants) ==
    IF Falsy(h) \/ num_participants = 0 THEN Returned(None)
    ELSE IF IntBase16Raises(h[1]) THEN Returned(None)
    ELSE Returned(Some(IntBase16(h[1]) % num_participants))

get_winner_index(h, num_participants) ==
    IF Falsy(h) \/ num_participants = 0 THEN Returned(None)
    ELSE IF IntBase16Raises(h[1]) THEN ValueError
    ELSE Returned(Some(IntBase16(h[1]) % num_participants))

----------------------------------------------------------------------------
(* Settlement amounts: round(TOTAL_AMOUNT * rate, 8) *)

RoundHalfEven(num, den) ==
    LET q == num \div den
        r == num % den
    IN  IF 2 * r > den \/ (2 * r = den /\ q % 2 = 1) THEN q + 1 ELSE q

(* amount (in 1e-8 units) times rate (in hundredths), rounded to a whole   *)
(* number of 1e-8 units.                                                   *)
RoundedShare(amount, rate) ==
    (amount \div 100) * rate + RoundHalfEven((amount % 100) * rate, 100)

prize_amount == RoundedShare(TOTAL_AMOUNT, PRIZE_RATE)

(* Mutant: the fee taken on one participant's stake, not on the pool. *)
admin_fee_OfStake == RoundedShare(PARTICIPANT_BTC_AMOUNT, ADMIN_RATE)

admin_fee == RoundedShare(TOTAL_AMOUNT, ADMIN_RATE)

Transaction(type, amount, address, timestamp) ==
    [txid |-> None, type |-> type, status |-> "pending", amount |-> amount,
     address |-> address, timestamp |-> timestamp]

Round(deposit_address, opened_at) ==
    [deposit_address |-> deposit_address, status |-> "open",
     opened_at |-> opened_at, closed_at |-> None, winner |-> None]

Participant(rid, address, created_at) ==
    [round_id |-> rid, btc_address |-> address, created_at |-> created_at,
     round_index |-> None]

----------------------------------------------------------------------------
(* Queries *)

(* session.query(Round).filter_by(id=round_id, status='open').first() *)
(* Mutant: the round looked up by id alone, whatever its status. *)
QueryOpenRound_AnyStatus(rid) ==
    IF rid \in DOMAIN rounds THEN Some(rid) ELSE None

QueryOpenRound(rid) ==
    IF rid \in DOMAIN rounds /\ rounds[rid].status = "open" THEN Some(rid) ELSE None

(* Mutant: the rows in primary-key order. *)
RECURSIVE OrderById(_)
OrderById(ids) ==
    IF ids = {} THEN <<>>
    ELSE LET first == CHOOSE i \in ids : \A j \in ids : i <= j
         IN  <<first>> \o OrderById(ids \ {first})

(* The rows by created_at, rows of equal created_at by primary key: the   *)
(* row at position k is the one that k - 1 rows precede.                  *)
OrderByCreatedAt(ids) ==
    [k \in 1..Cardinality(ids) |->
        CHOOSE i \in ids :
            Cardinality({j \in ids :
                            \/ participants[j].created_at < participants[i].created_at
                            \/ (participants[j].created_at = participants[i].created_at /\ j < i)})
                = k - 1]

(* session.query(Participant).filter_by(round_id=round_id)                 *)
(*        .order_by(Participant.created_at).all()                          *)
QueryParticipants(rid) ==
    OrderByCreatedAt({i \in DOMAIN participants : participants[i].round_id = rid})

(* Mutant: every loaded participant is given a slot. *)
FirstSlots_Everyone(ps) == ps

(* participants[:10] *)
FirstSlots(ps) == SubSeq(ps, 1, IF Len(ps) < ROUND_SIZE THEN Len(ps) ELSE ROUND_SIZE)

(* Mutant: the threshold off by one. *)
TooFew_OffByOne(ps) == Len(ps) < ROUND_SIZE - 1

TooFew(ps) == Len(ps) < ROUND_SIZE

(* for idx, p in enumerate(participants[:10], 1): p.round_index = idx *)
AssignedIndices(ps) ==
    [i \in DOMAIN participants |->
        IF \E k \in DOMAIN FirstSlots(ps) : ps[k] = i
        THEN [participants[i] EXCEPT
                 !.round_index = Some(CHOOSE k \in DOMAIN FirstSlots(ps) : ps[k] = i)]
        ELSE participants[i]]

----------------------------------------------------------------------------
(* The HTTP outcomes and the arrivals the environment supplies *)

HttpOutcomes ==
    { HttpException,
      HttpResponse(500, <<>>),
      HttpResponse(HTTP_OK, <<>>),
      HttpResponse(HTTP_OK, <<"1", "a", "\n">>),
      HttpResponse(HTTP_OK, <<"0", "7">>),
      HttpResponse(HTTP_OK, <<"<", "h", ">">>) }

AddressPool ==
    <<"bc1qparticipant01", "bc1qparticipant02", "bc1qparticipant03",
      "bc1qparticipant04", "bc1qparticipant05", "bc1qparticipant06",
      "bc1qparticipant07", "bc1qparticipant08", "bc1qparticipant09",
      "bc1qparticipant10", "bc1qparticipant11", "bc1qparticipant12",
      "bc1qparticipant13", "bc1qparticipant14", "bc1qparticipant15">>

FreshAddress(i) == AddressPool[((i - 1) % Len(AddressPool)) + 1]

(* The rows the table starts with were inserted in arrival order, or with  *)
(* the first two inserted in the opposite order of their created_at.       *)
InitialLayouts == {"in_order", "swapped"}

InitialCreatedAt(layout, i) ==
    IF layout = "swapped" /\ i \in {1, 2} /\ InitialParticipants >= 2 THEN 3 - i ELSE i

----------------------------------------------------------------------------
(* State *)

ProcessInit ==
    /\ pc = [p \in Procs |-> "idle"]
    /\ round_id = [p \in Procs |-> 1]
    /\ rnd = [p \in Procs |-> None]
    /\ plist = [p \in Procs |-> <<>>]
    /\ block_hash = [p \in Procs |-> None]
    /\ winner_idx = [p \in Procs |-> None]
    /\ winner_address = [p \in Procs |-> None]
    /\ calls = [p \in Procs |-> 0]
    /\ history = [p \in Procs |-> <<>>]
    /\ trail = <<>>

DatabaseInit(layout) ==
    /\ rounds = <<Round(FIXED_DEPOSIT_ADDRESS, 0)>>
    /\ participants = [i \in 1..InitialParticipants |->
                          Participant(1, FreshAddress(i), InitialCreatedAt(layout, i))]
    /\ transactions = <<>>
    /\ now = InitialParticipants + 1

DrawIdle == [h |-> None, n |-> 0, results |-> <<>>]

Init ==
    /\ ProcessInit
    /\ \E layout \in InitialLayouts : DatabaseInit(layout)
    /\ draw = DrawIdle

Event(op, p, rows) ==
    [op |-> op, proc |-> p, call |-> calls[p], round |-> round_id[p],
     hash |-> block_hash[p], winner |-> winner_address[p], rows |-> rows]

Finish(p, outcome) ==
    /\ pc' = [pc EXCEPT ![p] = "idle"]
    /\ history' = [history EXCEPT ![p] = Append(@, [round |-> round_id[p], outcome |-> outcome])]

Goto(p, label) ==
    /\ pc' = [pc EXCEPT ![p] = label]
    /\ UNCHANGED history

----------------------------------------------------------------------------
(* Environment: a participant's deposit is registered on an open round *)

Arrive(r) ==
    /\ Len(participants) < MaxParticipants
    /\ r \in DOMAIN rounds
    /\ rounds[r].status = "open"
    /\ participants' = Append(participants, Participant(r, FreshAddress(Len(participants) + 1), now))
    /\ now' = now + 1
    /\ UNCHANGED <<rounds, transactions, pc, round_id, rnd, plist, block_hash,
                   winner_idx, winner_address, calls, history, trail, draw>>

----------------------------------------------------------------------------
(* close_round(round_id), statement by statement *)

RECURSIVE SumOver(_, _)
SumOver(f, S) ==
    IF S = {} THEN 0
    ELSE LET x == CHOOSE y \in S : TRUE IN f[x] + SumOver(f, S \ {x})

TotalCalls == SumOver(calls, Procs)

Invoke(p, rid) ==
    /\ pc[p] = "idle"
    /\ TotalCalls < MaxCalls
    /\ calls' = [calls EXCEPT ![p] = @ + 1]
    /\ round_id' = [round_id EXCEPT ![p] = rid]
    /\ rnd' = [rnd EXCEPT ![p] = None]
    /\ plist' = [plist EXCEPT ![p] = <<>>]
    /\ block_hash' = [block_hash EXCEPT ![p] = None]
    /\ winner_idx' = [winner_idx EXCEPT ![p] = None]
    /\ winner_address' = [winner_address EXCEPT ![p] = None]
    /\ Goto(p, "load_round")
    /\ UNCHANGED <<rounds, participants, transactions, now, trail, draw>>

LoadRound(p) ==
    /\ pc[p] = "load_round"
    /\ rnd' = [rnd EXCEPT ![p] = QueryOpenRound(round_id[p])]
    /\ IF QueryOpenRound(round_id[p]) = None
       THEN Finish(p, "RoundNotOpen")
       ELSE Goto(p, "load_participants")
    /\ UNCHANGED <<rounds, participants, transactions, now, round_id, plist,
                   block_hash, winner_idx, winner_address, calls, trail, draw>>

LoadParticipants(p) ==
    /\ pc[p] = "load_participants"
    /\ plist' = [plist EXCEPT ![p] = QueryParticipants(round_id[p])]
    /\ IF TooFew(QueryParticipants(round_id[p]))
       THEN Finish(p, "InsufficientParticipants")
       ELSE Goto(p, "assign")
    /\ UNCHANGED <<rounds, participants, transactions, now, round_id, rnd,
                   block_hash, winner_idx, winner_address, calls, trail, draw>>

AssignIndices(p) ==
    /\ pc[p] = "assign"
    /\ participants' = AssignedIndices(plist[p])
    /\ Goto(p, "fetch")
    /\ UNCHANGED <<rounds, transactions, now, round_id, rnd, plist, block_hash,
                   winner_idx, winner_address, calls, trail, draw>>

FetchBeacon(p) ==
    /\ pc[p] = "fetch"
    /\ \E resp \in HttpOutcomes :
           block_hash' = [block_hash EXCEPT ![p] = get_latest_block_hash(resp)]
    /\ Goto(p, "check")
    /\ UNCHANGED <<rounds, participants, transactions, now, round_id, rnd, plist,
                   winner_idx, winner_address, calls, trail, draw>>

(* requests.get is called without a timeout: a server that accepts the    *)
(* connection and never answers leaves the invocation blocked in the call. *)
FetchHangs(p) ==
    /\ pc[p] = "fetch"
    /\ Goto(p, "blocked")
    /\ UNCHANGED <<rounds, participants, transactions, now, round_id, rnd, plist,
                   block_hash, winner_idx, winner_address, calls, trail, draw>>

(* Mutant: the draw goes on without the check of the beacon. *)
CheckBeacon_Unchecked(p) ==
    /\ pc[p] = "check"
    /\ Goto(p, "draw")
    /\ UNCHANGED <<rounds, participants, transactions, now, round_id, rnd, plist,
                   block_hash, winner_idx, winner_address, calls, trail, draw>>

CheckBeacon(p) ==
    /\ pc[p] = "check"
    /\ IF Falsy(block_hash[p])
       THEN Finish(p, "UnavailableError")
       ELSE Goto(p, "draw")
    /\ UNCHANGED <<rounds, participants, transactions, now, round_id, rnd, plist,
                   block_hash, winner_idx, winner_address, calls, trail, draw>>

(* Mutant: the draw taken over every loaded participant. *)
DrawnIndex_OverAllLoaded(p) == get_winner_index(block_hash[p], Len(plist[p]))

DrawnIndex(p) == get_winner_index(block_hash[p], ROUND_SIZE)

(* participants[winner_idx].btc_address; the row is re-read, the commit    *)
(* having expired it.                                                      *)
WinnerAddress(ps, idx) == participants[ps[idx + 1]].btc_address

DrawWinner(p) ==
    /\ pc[p] = "draw"
    /\ IF DrawnIndex(p).raised
       THEN /\ Finish(p, "ValueError")
            /\ UNCHANGED <<winner_idx, winner_address>>
       ELSE IF DrawnIndex(p).value = None
       THEN /\ Finish(p, "TypeError")
            /\ winner_idx' = [winner_idx EXCEPT ![p] = None]
            /\ UNCHANGED winner_address
       ELSE /\ winner_idx' = [winner_idx EXCEPT ![p] = DrawnIndex(p).value]
            /\ winner_address' = [winner_address EXCEPT ![p] =
                                     Some(WinnerAddress(plist[p], DrawnIndex(p).value[1]))]
            /\ Goto(p, "close")
    /\ UNCHANGED <<rounds, participants, transactions, now, round_id, rnd, plist,
                   block_hash, calls, trail, draw>>

(* Mutant: the closing write leaves closed_at unset. *)
ClosedRound_WithoutClosedAt(row, winner, at) ==
    [row EXCEPT !.status = "closed", !.winner = winner]

(* rnd.status/closed_at/winner are set on the loaded object and flushed as *)
(* UPDATE round SET ... WHERE id = ?                                       *)
ClosedRound(row, winner, at) ==
    [row EXCEPT !.status = "closed", !.closed_at = Some(at), !.winner = winner]

(* Mutant: the invocation goes on to the settlement without the closing   *)
(* commit.                                                                *)
CloseCommit_Omitted(p) ==
    /\ pc[p] = "close"
    /\ Goto(p, "payout")
    /\ UNCHANGED <<rounds, participants, transactions, now, round_id, rnd, plist,
                   block_hash, winner_idx, winner_address, calls, trail, draw>>

CloseCommit(p) ==
    /\ pc[p] = "close"
    /\ rounds' = [rounds EXCEPT ![rnd[p][1]] = ClosedRound(@, winner_address[p], now)]
    /\ now' = now + 1
    /\ trail' = Append(trail, Event("close", p, <<rnd[p][1]>>))
    /\ Goto(p, "payout")
    /\ UNCHANGED <<participants, transactions, round_id, rnd, plist, block_hash,
                   winner_idx, winner_address, calls, draw>>

record_payout_transactions(winner, at) ==
    <<Transaction("payout", prize_amount, winner, at),
      Transaction("fee", admin_fee, ADMIN_FEE_ADDRESS, at + 1)>>

RecordPayout(p) ==
    /\ pc[p] = "payout"
    /\ transactions' = transactions \o record_payout_transactions(winner_address[p][1], now)
    /\ now' = now + 2
    /\ trail' = Append(trail, Event("settle", p,
                          <<Len(transactions) + 1, Len(transactions) + 2>>))
    /\ Goto(p, "next")
    /\ UNCHANGED <<rounds, participants, round_id, rnd, plist, block_hash,
                   winner_idx, winner_address, calls, draw>>

(* Mutant: the successor opened on the admin fee address. *)
create_next_round_OnFeeAddress(at) == Round(ADMIN_FEE_ADDRESS, at)

create_next_round(at) == Round(FIXED_DEPOSIT_ADDRESS, at)

CreateNextRound(p) ==
    /\ pc[p] = "next"
    /\ rounds' = Append(rounds, create_next_round(now))
    /\ now' = now + 1
    /\ trail' = Append(trail, Event("successor", p, <<Len(rounds) + 1>>))
    /\ Finish(p, "closed")
    /\ UNCHANGED <<participants, transactions, round_id, rnd, plist, block_hash,
                   winner_idx, winner_address, calls, draw>>

(* A commit the database refuses raises out of close_round; nothing of the *)
(* refused transaction is written.                                         *)
CommitPoints == {"assign", "close", "payout", "next"}

(* Mutant: a refused commit after the closing commit undoes the closure. *)
CommitFails_UndoingClosure(p) ==
    /\ pc[p] \in CommitPoints
    /\ Finish(p, "PersistenceError")
    /\ rounds' = IF pc[p] \in {"payout", "next"}
                 THEN [rounds EXCEPT ![rnd[p][1]] =
                          [@ EXCEPT !.status = "open", !.closed_at = None, !.winner = None]]
                 ELSE rounds
    /\ UNCHANGED <<participants, transactions, now, round_id, rnd, plist,
                   block_hash, winner_idx, winner_address, calls, trail, draw>>

CommitFails(p) ==
    /\ pc[p] \in CommitPoints
    /\ Finish(p, "PersistenceError")
    /\ UNCHANGED <<rounds, participants, transactions, now, round_id, rnd, plist,
                   block_hash, winner_idx, winner_address, calls, trail, draw>>

close_round(p) ==
    \/ LoadRound(p)
    \/ LoadParticipants(p)
    \/ AssignIndices(p)
    \/ FetchBeacon(p)
    \/ FetchHangs(p)
    \/ CheckBeacon(p)
    \/ DrawWinner(p)
    \/ CloseCommit(p)
    \/ RecordPayout(p)
    \/ CreateNextRound(p)
    \/ CommitFails(p)

Next ==
    \/ \E p \in Procs : \E rid \in 1..(Len(rounds) + 1) : Invoke(p, rid)
    \/ \E p \in Procs : close_round(p)
    \/ \E r \in DOMAIN rounds : Arrive(r)

Spec == Init /\ [][Next]_vars

(* Each invocation is a running interpreter: a statement that can be       *)
(* executed is executed. Nobody is bound to call close_round or to deposit. *)
FairSpec == Spec /\ \A p \in Procs : WF_vars(close_round(p))

----------------------------------------------------------------------------
(* The draw function on its own: get_winner_index applied, repeatedly, to  *)
(* a text and a participant count.                                         *)

DrawChars == {HexDigits[k] : k \in DOMAIN HexDigits} \cup {"F", "g"}

DrawTexts == UNION {[1..k -> DrawChars] : k \in 0..MaxHexLen}

DrawInit ==
    /\ ProcessInit
    /\ DatabaseInit("in_order")
    /\ draw \in [h : {None} \cup {Some(t) : t \in DrawTexts}, n : 0..MaxCount,
                  results : {<<>>}]

DrawApply ==
    /\ Len(draw.results) < MaxCalls
    /\ draw' = [draw EXCEPT !.results = Append(@, get_winner_index(draw.h, draw.n))]
    /\ UNCHANGED <<rounds, participants, transactions, now, pc, round_id, rnd, plist,
                   block_hash, winner_idx, winner_address, calls, history, trail>>

DrawNext == DrawApply

DrawSpec == DrawInit /\ [][DrawNext]_vars

----------------------------------------------------------------------------
(* The draw function and the closure together: get_winner_index is first   *)
(* applied to a text and a count of the caller's choosing, and the         *)
(* close_round invocations run once its results have been taken.           *)

HarnessInit ==
    /\ ProcessInit
    /\ \E layout \in InitialLayouts : DatabaseInit(layout)
    /\ draw \in [h : {None} \cup {Some(t) : t \in DrawTexts}, n : 0..MaxCount,
                  results : {<<>>}]

HarnessApply ==
    /\ TotalCalls = 0
    /\ DrawApply

DrawRetire ==
    /\ Len(draw.results) = MaxCalls
    /\ draw' = DrawIdle
    /\ UNCHANGED <<rounds, participants, transactions, now, pc, round_id, rnd, plist,
                   block_hash, winner_idx, winner_address, calls, history, trail>>

HarnessNext ==
    \/ HarnessApply
    \/ DrawRetire
    \/ (draw = DrawIdle /\ Next)

HarnessSpec == HarnessInit /\ [][HarnessNext]_vars

----------------------------------------------------------------------------
(* Vocabulary of the properties *)

Events(op, r) == {k \in DOMAIN trail : trail[k].op = op /\ trail[k].round = r}

Finished == {<<p, k>> \in Procs \X (1..MaxCalls + 1) : k \in DOMAIN history[p]}

Outcomes(r) == {history[e[1]][e[2]].outcome : e \in {f \in Finished : history[f[1]][f[2]].round = r}}

AllReturned == \A p \in Procs : pc[p] = "idle"

Members(r) == {i \in DOMAIN participants : participants[i].round_id = r}

(* Position of a participant in its round's arrival order, from 1. *)
Rank(i) ==
    1 + Cardinality({j \in Members(participants[i].round_id) :
                        participants[j].created_at < participants[i].created_at})

RowsOf(k) == {trail[k].rows[n] : n \in DOMAIN trail[k].rows}

----------------------------------------------------------------------------
(* C1: of the close_round invocations on one round id, however their      *)
(* steps interleave, at most one performs the closing write (status       *)
(* closed, winner recorded); every other one finds the round not open.    *)
C1_SingleClosingWrite ==
    \A r \in DOMAIN rounds : Cardinality(Events("close", r)) <= 1

(* C2: once racing invocations on a round have all returned (none refused *)
(* by the database), the closed round has exactly one payout transaction, *)
(* exactly one fee transaction and exactly one successor round.           *)
C2_LoserLeavesNothing ==
    (AllReturned /\ \A r \in DOMAIN rounds : "PersistenceError" \notin Outcomes(r))
    => \A r \in DOMAIN rounds :
           rounds[r].status = "closed" =>
               LET settled == UNION {RowsOf(k) : k \in Events("settle", r)}
               IN  /\ Cardinality({t \in settled : transactions[t].type = "payout"}) = 1
                   /\ Cardinality({t \in settled : transactions[t].type = "fee"}) = 1
                   /\ Cardinality(Events("successor", r)) = 1

(* C3: once a round is closed, no later step writes its winner or its     *)
(* closed_at.                                                             *)
C3_DrawIsFinal ==
    [][\A r \in DOMAIN rounds :
           rounds[r].status = "closed" =>
               /\ rounds'[r].winner = rounds[r].winner
               /\ rounds'[r].closed_at = rounds[r].closed_at]_vars

(* The integer a hexadecimal text denotes: the sum of its digits' values   *)
(* weighted by the powers of sixteen.                                     *)
HexAlphabet ==
    {"0", "1", "2", "3", "4", "5", "6", "7", "8", "9", "a", "b", "c", "d", "e", "f",
     "A", "B", "C", "D", "E", "F"}

NibbleOf(c) ==
    CASE c = "0" -> 0 [] c = "1" -> 1 [] c = "2" -> 2 [] c = "3" -> 3
      [] c = "4" -> 4 [] c = "5" -> 5 [] c = "6" -> 6 [] c = "7" -> 7
      [] c = "8" -> 8 [] c = "9" -> 9
      [] c \in {"a", "A"} -> 10 [] c \in {"b", "B"} -> 11 [] c \in {"c", "C"} -> 12
      [] c \in {"d", "D"} -> 13 [] c \in {"e", "E"} -> 14 [] c \in {"f", "F"} -> 15

IsHexText(t) == t # <<>> /\ \A k \in DOMAIN t : t[k] \in HexAlphabet

RECURSIVE Sixteen(_)
Sixteen(e) == IF e = 0 THEN 1 ELSE 16 * Sixteen(e - 1)

RECURSIVE WeightedSum(_, _)
WeightedSum(t, k) ==
    IF k = 0 THEN 0 ELSE NibbleOf(t[k]) * Sixteen(Len(t) - k) + WeightedSum(t, k - 1)

HexValue(t) == WeightedSum(t, Len(t))

AddressAtRank(r, n) == participants[CHOOSE i \in Members(r) : Rank(i) = n].btc_address

Running == {"fetch", "check", "draw", "close", "payout", "next"}

Returns(p, outcome) ==
    /\ pc'[p] = "idle"
    /\ history'[p] = Append(history[p], [round |-> round_id[p], outcome |-> outcome])

----------------------------------------------------------------------------
(* C4: close_round on an open round with fewer than 10 participants       *)
(* returns InsufficientParticipants and writes nothing; such a round is   *)
(* open, has no winner, and none of its participants has a round_index.   *)
C4_UntouchedRound ==
    \A r \in DOMAIN rounds :
        Cardinality(Members(r)) < 10 =>
            /\ rounds[r].status = "open"
            /\ rounds[r].winner = None
            /\ rounds[r].closed_at = None
            /\ \A i \in Members(r) : participants[i].round_index = None

C4_RefusalStep ==
    \A p \in Procs :
        (/\ pc[p] = "load_participants"
         /\ pc'[p] # "load_participants"
         /\ Cardinality(Members(round_id[p])) < 10)
        => /\ Returns(p, "InsufficientParticipants")
           /\ UNCHANGED <<rounds, participants, transactions, trail>>

(* C4: a round with fewer than 10 participants is untouched, and the      *)
(* refusing step writes nothing.                                          *)
C4_TooFewMutatesNothing == [](C4_UntouchedRound) /\ [][C4_RefusalStep]_vars

C4_Witness ==
    \E p \in Procs :
        /\ history[p] # <<>>
        /\ history[p][Len(history[p])] = [round |-> 1, outcome |-> "InsufficientParticipants"]
        /\ Cardinality(Members(1)) = 9
        /\ rounds[1].status = "open"

----------------------------------------------------------------------------
(* C5: the round_index a participant holds is its position (1..10) in its *)
(* round's arrival order; once an invocation has committed the indices,   *)
(* each of the first 10 holds one and nobody else does; and no later      *)
(* step, of a retry or after later arrivals, changes an assigned index.   *)
C5_IndexIsArrivalRank ==
    \A i \in DOMAIN participants :
        participants[i].round_index # None =>
            /\ participants[i].round_index = Some(Rank(i))
            /\ Rank(i) <= 10

C5_FirstTenIndexed ==
    \A p \in Procs :
        pc[p] \in Running =>
            \A i \in Members(round_id[p]) :
                Rank(i) <= 10 => participants[i].round_index = Some(Rank(i))

C5_NoRenumbering ==
    \A i \in DOMAIN participants :
        participants[i].round_index # None =>
            participants'[i].round_index = participants[i].round_index

(* C5: indices are arrival ranks 1..10, held by the first 10 once         *)
(* committed, and never renumbered.                                       *)
C5_IndicesFollowArrival ==
    [](C5_IndexIsArrivalRank /\ C5_FirstTenIndexed) /\ [][C5_NoRenumbering]_vars

C5_Witness ==
    \E p \in Procs :
        /\ history[p] = <<[round |-> 1, outcome |-> "UnavailableError"]>>
        /\ pc[p] = "fetch"
        /\ round_id[p] = 1
        /\ Len(participants) > 10
        /\ participants[11].round_index = None
        /\ participants[1].round_index = Some(2)
        /\ participants[10].round_index = Some(10)

----------------------------------------------------------------------------
NoBeacon == {None, Some(<<>>)}

(* C6: an invocation whose beacon fetch gave nothing (no answer, or an    *)
(* empty one) returns                                                     *)
(* UnavailableError without writing: the round is as it was (open, with   *)
(* no winner and no closed_at, unless another invocation closed it), the  *)
(* indices of the first 10 stay assigned, no transaction and no round is  *)
(* added; no invocation draws without a beacon; and an invocation that    *)
(* returns closed, a retry included, leaves the round closed with a       *)
(* winner and a closing time.                                             *)
C6_AbortStep ==
    \A p \in Procs :
        (pc[p] = "check" /\ block_hash[p] \in NoBeacon /\ pc'[p] # "check")
        => /\ Returns(p, "UnavailableError")
           /\ UNCHANGED <<rounds, participants, transactions, trail>>
           /\ Events("close", round_id[p]) = {} =>
                  /\ rounds'[round_id[p]].status = "open"
                  /\ rounds'[round_id[p]].winner = None
                  /\ rounds'[round_id[p]].closed_at = None
           /\ \A i \in Members(round_id[p]) :
                  Rank(i) <= 10 => participants'[i].round_index = Some(Rank(i))

C6_NoDrawWithoutBeacon ==
    \A p \in Procs : pc[p] \in {"draw", "close", "payout", "next"} => block_hash[p] \notin NoBeacon

C6_ClosedNormally ==
    \A p \in Procs :
        \A k \in DOMAIN history[p] :
            history[p][k].outcome = "closed" =>
                LET r == history[p][k].round
                IN  /\ rounds[r].status = "closed"
                    /\ rounds[r].winner # None
                    /\ rounds[r].closed_at # None
                    /\ \E e \in Events("settle", r) : trail[e].proc = p /\ trail[e].call = k
                    /\ \E e \in Events("successor", r) : trail[e].proc = p /\ trail[e].call = k

(* C6: a beacon failure aborts without writing, and a closure that        *)
(* returns closed, a retry included, has closed the round normally.       *)
C6_BeaconFailureIsRetryable ==
    [](C6_NoDrawWithoutBeacon /\ C6_ClosedNormally) /\ [][C6_AbortStep]_vars

C6_Witness ==
    \E p \in Procs :
        /\ history[p] = <<[round |-> 1, outcome |-> "UnavailableError"],
                          [round |-> 1, outcome |-> "closed"]>>
        /\ rounds[1].status = "closed"
        /\ Len(transactions) = 2

----------------------------------------------------------------------------
(* C7: for a participant count n > 0 and a hexadecimal text h, every      *)
(* application of get_winner_index(h, n) returns the integer h denotes    *)
(* modulo n, a number of 0..n-1.                                          *)
C7_DrawIsModulo ==
    (draw.n > 0 /\ draw.h # None /\ IsHexText(draw.h[1]))
    => \A k \in DOMAIN draw.results :
           /\ ~draw.results[k].raised
           /\ draw.results[k].value # None
           /\ draw.results[k].value[1] \in 0..(draw.n - 1)
           /\ draw.results[k].value[1] = HexValue(draw.h[1]) % draw.n

C7_Witness ==
    /\ draw.h = Some(<<"1", "a">>)
    /\ draw.n = 10
    /\ Len(draw.results) = 2
    /\ draw.results[1] = draw.results[2]
    /\ draw.results[2].value = Some(6)

----------------------------------------------------------------------------
(* C8: the closing commit of an invocation records as the round's winner  *)
(* the btc_address of the participant at 0-based position H mod 10 of the *)
(* round's arrival order, H being the integer its beacon denotes.         *)
C8_ClosingStep ==
    \A p \in Procs :
        (pc[p] = "close" /\ pc'[p] = "payout")
        => /\ rounds'[round_id[p]].status = "closed"
           /\ rounds'[round_id[p]].winner =
                  Some(AddressAtRank(round_id[p], (HexValue(block_hash[p][1]) % 10) + 1))

(* C8: every closing commit records the participant drawn by H mod 10.    *)
C8_WinnerIsDrawn == [][C8_ClosingStep]_vars

C8_Witness ==
    /\ rounds[1].status = "closed"
    /\ rounds[1].winner = Some("bc1qparticipant07")
    /\ \E k \in Events("close", 1) : trail[k].hash = Some(<<"1", "a">>)
    /\ \E p \in Procs : history[p] # <<>> /\ history[p][Len(history[p])].outcome = "closed"

----------------------------------------------------------------------------
(* C9: an invocation that returns closed has recorded exactly two         *)
(* transactions, a pending payout without txid addressed to the round's   *)
(* winner and a pending fee without txid addressed to the admin fee       *)
(* address; transactions are recorded by no other step, and by no         *)
(* invocation that has not committed the close.                           *)
C9_Shape(p) ==
    /\ Len(transactions') = Len(transactions) + 2
    /\ SubSeq(transactions', 1, Len(transactions)) = transactions
    /\ LET payout == transactions'[Len(transactions) + 1]
           fee == transactions'[Len(transactions) + 2]
       IN  /\ payout.type = "payout" /\ payout.status = "pending" /\ payout.txid = None
           /\ fee.type = "fee" /\ fee.status = "pending" /\ fee.txid = None
           /\ fee.address = ADMIN_FEE_ADDRESS

C9_ToRoundWinner(p) ==
    Some(transactions'[Len(transactions) + 1].address) = rounds[round_id[p]].winner

C9_OnlySettlementRecords ==
    \/ transactions' = transactions
    \/ \E p \in Procs : pc[p] = "payout" /\ pc'[p] = "next"

C9_SettledAfterOwnClose ==
    /\ \A k \in DOMAIN trail :
           trail[k].op = "settle" =>
               \E c \in 1..(k - 1) :
                   /\ trail[c].op = "close"
                   /\ trail[c].proc = trail[k].proc
                   /\ trail[c].call = trail[k].call
    /\ \A p \in Procs :
           \A k \in DOMAIN history[p] :
               history[p][k].outcome = "closed" =>
                   Cardinality({e \in DOMAIN trail :
                                   /\ trail[e].op = "settle"
                                   /\ trail[e].proc = p
                                   /\ trail[e].call = k}) = 1
    /\ Len(transactions) = 2 * Cardinality({e \in DOMAIN trail : trail[e].op = "settle"})

C9_SettlementStep ==
    /\ C9_OnlySettlementRecords
    /\ \A p \in Procs :
           (pc[p] = "payout" /\ pc'[p] = "next") => C9_Shape(p) /\ C9_ToRoundWinner(p)

(* C9: settlements are recorded only after the invocation's own closing   *)
(* commit, two at a time, pending, the payout to the round's winner and   *)
(* the fee to the admin fee address.                                      *)
C9_TwoPendingSettlements == [](C9_SettledAfterOwnClose) /\ [][C9_SettlementStep]_vars

----------------------------------------------------------------------------
(* C10: with the pool of 1.0 (100000000 units of 1e-8) every recorded     *)
(* payout is 0.99000000, every recorded fee 0.01000000, and the two       *)
(* amounts of a settlement add up to the pool.                            *)
C10_AmountsReconcile ==
    /\ TOTAL_AMOUNT = 100000000
    /\ \A t \in DOMAIN transactions :
           /\ transactions[t].type = "payout" => transactions[t].amount = 99000000
           /\ transactions[t].type = "fee" => transactions[t].amount = 1000000
    /\ \A k \in DOMAIN trail :
           trail[k].op = "settle" =>
               transactions[trail[k].rows[1]].amount + transactions[trail[k].rows[2]].amount
                   = TOTAL_AMOUNT

C10_Witness ==
    /\ Len(transactions) >= 2
    /\ transactions[1].type = "payout"
    /\ transactions[2].type = "fee"
    /\ \E k \in DOMAIN trail : trail[k].op = "settle" /\ trail[k].rows = <<1, 2>>

----------------------------------------------------------------------------
(* C11: the step that completes a closure appends one round that is open, *)
(* has no winner and no closed_at and carries the fixed deposit address,  *)
(* leaving the rounds before it as they are; and every round there is     *)
(* carries that same address.                                             *)
C11_OneAddress ==
    \A r \in DOMAIN rounds : rounds[r].deposit_address = "bc1qsingleaddress1234567890"

C11_SuccessorStep ==
    \A p \in Procs :
        (pc[p] = "next" /\ Returns(p, "closed"))
        => /\ Len(rounds') = Len(rounds) + 1
           /\ SubSeq(rounds', 1, Len(rounds)) = rounds
           /\ rounds'[Len(rounds')].status = "open"
           /\ rounds'[Len(rounds')].winner = None
           /\ rounds'[Len(rounds')].closed_at = None
           /\ rounds'[Len(rounds')].deposit_address = "bc1qsingleaddress1234567890"

(* C11: every successful closure opens a successor on the fixed address.  *)
C11_SuccessorOnFixedAddress == [](C11_OneAddress) /\ [][C11_SuccessorStep]_vars

C11_Witness ==
    /\ Len(rounds) = 2
    /\ rounds[1].status = "closed"
    /\ rounds[2] = [deposit_address |-> "bc1qsingleaddress1234567890", status |-> "open",
                    opened_at |-> rounds[2].opened_at, closed_at |-> None, winner |-> None]
    /\ \E p \in Procs : history[p] # <<>> /\ history[p][Len(history[p])] = [round |-> 1, outcome |-> "closed"]
    /\ \E k \in Events("successor", 1) : trail[k].rows = <<2>>

----------------------------------------------------------------------------
(* C12: when an invocation fails after its closing commit, in recording   *)
(* the settlement or in creating the successor, the failing step writes   *)
(* nothing: the round it closed is closed, with the winner and closed_at  *)
(* it had before the step; and no step at all turns a closed round open.  *)
AfterClose == {"payout", "next"}

C12_FailureStep ==
    \A p \in Procs :
        (pc[p] \in AfterClose /\ Returns(p, "PersistenceError"))
        => /\ rounds[round_id[p]].status = "closed"
           /\ rounds[round_id[p]].winner # None
           /\ rounds[round_id[p]].closed_at # None
           /\ rounds'[round_id[p]] = rounds[round_id[p]]
           /\ UNCHANGED <<rounds, participants, transactions>>

C12_NeverReopened ==
    \A r \in DOMAIN rounds : rounds[r].status = "closed" => rounds'[r].status = "closed"

(* C12: a failure after the closing commit leaves the closure standing.   *)
C12_ClosureSurvivesFailure == [][C12_FailureStep /\ C12_NeverReopened]_vars

C12_Witness ==
    /\ rounds[1].status = "closed"
    /\ rounds[1].winner # None
    /\ rounds[1].closed_at # None
    /\ Len(rounds) = 1
    /\ \E p \in Procs :
           /\ history[p] # <<>>
           /\ history[p][Len(history[p])] = [round |-> 1, outcome |-> "PersistenceError"]
           /\ \E k \in Events("close", 1) : trail[k].proc = p

----------------------------------------------------------------------------
(* C13: an invocation whose round id names no round, or a round that is   *)
(* already closed, returns at the lookup with the not-found / not-open    *)
(* outcome, and that step changes no round, participant or transaction.   *)
C13_RefusalStep ==
    \A p \in Procs :
        (/\ pc[p] = "load_round"
         /\ pc'[p] # "load_round"
         /\ \/ round_id[p] \notin DOMAIN rounds
            \/ rounds[round_id[p]].status = "closed")
        => /\ Returns(p, "RoundNotOpen")
           /\ UNCHANGED <<rounds, participants, transactions, trail>>

(* C13: a step that writes a table is a step of an invocation that found  *)
(* its round open at the lookup.                                          *)
C13_WritersFoundRoundOpen ==
    \A p \in Procs :
        pc[p] \in {"assign", "close", "payout", "next"} =>
            /\ rnd[p] = Some(round_id[p])
            /\ round_id[p] \in DOMAIN rounds

(* C13: closing a missing or closed round is refused without a write.     *)
C13_MissingOrClosedRefused == [](C13_WritersFoundRoundOpen) /\ [][C13_RefusalStep]_vars

C13_Witness ==
    /\ rounds[1].status = "closed"
    /\ \E p, q \in Procs :
           /\ Len(history[p]) >= 1
           /\ history[p][Len(history[p])] = [round |-> 1, outcome |-> "RoundNotOpen"]
           /\ Len(history[q]) >= 1
           /\ history[q][1] = [round |-> 1, outcome |-> "closed"]
           /\ Cardinality(Events("close", 1)) = 1
           /\ Len(transactions) = 2
           /\ Len(rounds) = 2

C13_WitnessMissing ==
    \E p \in Procs :
        /\ history[p] # <<>>
        /\ history[p][1] = [round |-> 2, outcome |-> "RoundNotOpen"]
        /\ Len(rounds) = 1

----------------------------------------------------------------------------
(* C14, as the claim states it: whenever the text is missing, empty or    *)
(* not hexadecimal, or the count is 0, get_winner_index hands back an     *)
(* error value, that is, it returns, and what it returns is no index;     *)
(* and an invocation whose beacon is not hexadecimal ends in an error     *)
(* with the round as it was.                                              *)
C14_InvalidText(h) == h = None \/ ~IsHexText(h[1])

C14_ClosureStep ==
    \A p \in Procs :
        (pc[p] = "draw" /\ pc'[p] # "draw" /\ C14_InvalidText(block_hash[p]))
        => /\ Returns(p, "ValueError")
           /\ UNCHANGED <<rounds, participants, transactions, trail>>
           /\ Events("close", round_id[p]) = {} =>
                  /\ rounds'[round_id[p]].status = "open"
                  /\ rounds'[round_id[p]].winner = None

C14_ErrorIsReturned ==
    \A k \in DOMAIN draw.results :
        (C14_InvalidText(draw.h) \/ draw.n = 0)
        => /\ ~draw.results[k].raised
           /\ draw.results[k].value = None

C14_NoneOrRaise ==
    \A k \in DOMAIN draw.results :
        /\ (draw.h \in NoBeacon \/ draw.n = 0)
           => draw.results[k] = [raised |-> FALSE, value |-> None]
        /\ (draw.h \notin NoBeacon /\ draw.n # 0 /\ ~IsHexText(draw.h[1]))
           => draw.results[k].raised
        /\ (draw.h \notin NoBeacon /\ draw.n # 0 /\ IsHexText(draw.h[1]))
           => /\ ~draw.results[k].raised
              /\ draw.results[k].value # None

C14_WitnessRaised ==
    /\ draw.h = Some(<<"g">>)
    /\ draw.n = 10
    /\ Len(draw.results) = MaxCalls
    /\ draw.results[1].raised

----------------------------------------------------------------------------
(* C15: a participant that is not among the first 10 of its round's       *)
(* arrival order never holds a round_index, and a round's recorded winner *)
(* is the address of one of the first 10 participants of that round.      *)
C15_OnlyFirstTenIndexed ==
    \A i \in DOMAIN participants :
        Rank(i) > 10 => participants[i].round_index = None

C15_WinnerAmongFirstTen ==
    \A r \in DOMAIN rounds :
        rounds[r].winner # None =>
            \E i \in Members(r) :
                /\ Rank(i) <= 10
                /\ rounds[r].winner = Some(participants[i].btc_address)

(* C15: latecomers are neither indexed nor drawn.                         *)
C15_ExcessParticipantsIgnored == C15_OnlyFirstTenIndexed /\ C15_WinnerAmongFirstTen

C15_Witness ==
    /\ Cardinality(Members(1)) = 11
    /\ rounds[1].status = "closed"
    /\ \E i \in Members(1) : Rank(i) = 11 /\ participants[i].round_index = None
    /\ \E p \in Procs :
           /\ Len(plist[p]) = 11
           /\ round_id[p] = 1
           /\ history[p] # <<>>
           /\ history[p][Len(history[p])] = [round |-> 1, outcome |-> "closed"]

----------------------------------------------------------------------------
(* C16: every close_round invocation that has started eventually returns, *)
(* with a success or an error outcome, whatever the randomness source     *)
(* does.                                                                  *)
C16_EveryInvocationReturns ==
    \A p \in Procs : (pc[p] # "idle") ~> (pc[p] = "idle")

(* C16, without time: an invocation that has not returned always has a    *)
(* step to take; it is never left waiting for the randomness source.      *)
C16_NeverBlocked ==
    \A p \in Procs : pc[p] # "idle" => ENABLED close_round(p)

----------------------------------------------------------------------------
(* C17: the writes of one invocation come in a fixed order. An invocation *)
(* that is at or past the beacon fetch has committed the indices of the   *)
(* participants it drew from; its settlement comes after its closing      *)
(* commit and its successor after its settlement. So a round that has a   *)
(* settlement is closed, and a successor's predecessor has its two        *)
(* settlement records.                                                    *)
PastAssign == {"fetch", "blocked", "check", "draw", "close", "payout", "next"}

SameCall(j, k) == trail[j].proc = trail[k].proc /\ trail[j].call = trail[k].call

C17_IndicesBeforeFetch ==
    \A p \in Procs :
        pc[p] \in PastAssign =>
            \A k \in 1..10 : participants[plist[p][k]].round_index = Some(k)

C17_OrderWithinCall ==
    \A k \in DOMAIN trail :
        /\ trail[k].op = "settle" =>
               \E c \in 1..(k - 1) : trail[c].op = "close" /\ SameCall(c, k)
        /\ trail[k].op = "successor" =>
               \E s \in 1..(k - 1) : trail[s].op = "settle" /\ SameCall(s, k)

C17_SettledImpliesClosed ==
    \A k \in DOMAIN trail :
        trail[k].op = "settle" =>
            /\ rounds[trail[k].round].status = "closed"
            /\ \A n \in RowsOf(k) : n \in DOMAIN transactions

C17_SuccessorImpliesSettled ==
    \A k \in DOMAIN trail :
        trail[k].op = "successor" =>
            /\ RowsOf(k) \subseteq DOMAIN rounds
            /\ \E s \in Events("settle", trail[k].round) :
                   /\ s < k
                   /\ Cardinality(RowsOf(s)) = 2
                   /\ RowsOf(s) \subseteq DOMAIN transactions

(* C17: index commit, beacon, closing commit, settlement, successor, in   *)
(* that order.                                                            *)
C17_EffectsInOrder ==
    /\ C17_IndicesBeforeFetch
    /\ C17_OrderWithinCall
    /\ C17_SettledImpliesClosed
    /\ C17_SuccessorImpliesSettled
    /\ Len(transactions) > 0 => \E r \in DOMAIN rounds : rounds[r].status = "closed"
    /\ Len(rounds) > 1 => Len(transactions) >= 2

C17_Witness ==
    /\ Len(trail) = 3
    /\ trail[1].op = "close" /\ trail[2].op = "settle" /\ trail[3].op = "successor"
    /\ SameCall(1, 2) /\ SameCall(2, 3)
    /\ trail[1].round = 1
    /\ rounds[1].status = "closed"
    /\ Len(transactions) = 2
    /\ Len(rounds) = 2
    /\ \A k \in 1..10 : \E i \in Members(1) : participants[i].round_index = Some(k)

----------------------------------------------------------------------------
(* C18: a round's status is closed exactly when its winner is set and its *)
(* closed_at is set, and a closed round is never open again.              *)
C18_ClosedIffDrawn ==
    \A r \in DOMAIN rounds :
        /\ rounds[r].status \in {"open", "closed"}
        /\ rounds[r].status = "closed"
               <=> (rounds[r].winner # None /\ rounds[r].closed_at # None)

C18_ClosedStaysClosed ==
    \A r \in DOMAIN rounds :
        rounds[r].status = "closed" =>
            /\ r \in DOMAIN rounds'
            /\ rounds'[r].status = "closed"

(* C18: closed, winner and closed_at go together, for good.               *)
C18_StatusMatchesDraw == [](C18_ClosedIffDrawn) /\ [][C18_ClosedStaysClosed]_vars

C18_Witness ==
    /\ Len(rounds) >= 2
    /\ rounds[1].status = "closed" /\ rounds[1].winner # None /\ rounds[1].closed_at # None
    /\ rounds[2].status = "open" /\ rounds[2].winner = None /\ rounds[2].closed_at = None
    /\ Cardinality(Events("close", 1)) = 2

----------------------------------------------------------------------------
(* C19: every recorded payout is addressed to the winner now recorded on  *)
(* the round whose closure recorded it.                                   *)
C19_PayoutsToRecordedWinner ==
    \A k \in DOMAIN trail :
        trail[k].op = "settle" =>
            \A n \in RowsOf(k) :
                transactions[n].type = "payout" =>
                    Some(transactions[n].address) = rounds[trail[k].round].winner

----------------------------------------------------------------------------
(* C20: when every invocation made has returned, none of them ended by an *)
(* exception, there is exactly one open round, and every closed round has *)
(* exactly one successor.                                                 *)
RanToCompletion == {"closed", "RoundNotOpen", "InsufficientParticipants", "UnavailableError"}

OpenRounds == {r \in DOMAIN rounds : rounds[r].status = "open"}

C20_OneOpenRound ==
    (AllReturned /\ \A r \in 1..(Len(rounds) + 1) : Outcomes(r) \subseteq RanToCompletion)
    => /\ Cardinality(OpenRounds) = 1
       /\ \A r \in DOMAIN rounds :
              rounds[r].status = "closed" => Cardinality(Events("successor", r)) = 1

============================================================================
